---- MODULE Spec2Model ----
(***************************************************************************)
(* Model of the request fan-out of src/api.py: send_requests builds one    *)
(* coroutine per entry of API_CONFIGS, awaits them with asyncio.gather,    *)
(* and repeats while the global flag running is true.  make_api_call       *)
(* issues one POST or GET with a fixed timeout and prints the outcome.     *)
(*                                                                         *)
(* Time is discrete (one tick = one second).  The coroutines of a batch    *)
(* take their first step in list order in the event-loop iteration that    *)
(* follows the await of gather, before any network event is polled, so     *)
(* every request of a batch is launched at the same tick.                  *)
(* The variable log holds the outcome lines printed since the current      *)
(* batch was started (the projection of stdout on that batch).             *)
(***************************************************************************)
EXTENDS Integers, Sequences, FiniteSets, TLC

VARIABLES cfg, running, pc, session, batch, idx, tasks, st, res, resp,
          sent, wire, now, log, issued, attempts, exc, opened, stopAt, phone

vars == <<cfg, running, pc, session, batch, idx, tasks, st, res, resp,
          sent, wire, now, log, issued, attempts, exc, opened, stopAt, phone>>

\* ---------------------------------------------------------------- bounds
MaxN == 2          \* longest descriptor list explored
MaxBatches == 2    \* loop iterations explored
MaxClock == 4      \* seconds of one batch explored

\* ------------------------------------------------------ program constants
Timeout == 3       \* timeout=3 of session.post / session.get
PhoneLen == 10     \* len(phone) accepted by main

\* ------------------------------------------------- the entered number
\* what input() returns at line 757: the number of characters of the string
\* and whether all of them are digit characters
PhoneLens == {0, PhoneLen - 1, PhoneLen, PhoneLen + 1}
Phones == [len : PhoneLens, digits : BOOLEAN]
NoPhone == [len |-> 0, digits |-> FALSE]

\* phone.isdigit(): false for the empty string
IsDigit(p) == p.len > 0 /\ p.digits

Rejected_and(p) == ~IsDigit(p) /\ p.len # PhoneLen

\* the test of line 758: not phone.isdigit() or len(phone) != 10
Rejected(p) == ~IsDigit(p) \/ p.len # PhoneLen

\* ------------------------------------------------------------ descriptors
Fields == {"url", "method", "headers", "data"}

Lit == [kind |-> "str", text |-> <<10>>]        \* a literal header value
LenFn == [kind |-> "fn", text |-> <<11>>]     \* lambda data: str(len(data))
TsFn == [kind |-> "fn", text |-> <<12>>]       \* lambda: str(int(time.time() * 1000))
NoHeaders == [h \in {} |-> Lit]
Plain == [Accept |-> Lit]
FnData == [kind |-> "fn", fixed |-> 2]
NoneData == [kind |-> "None", fixed |-> 0]

Desc(keys, method, url, headers, data, timeout) ==
    [keys |-> keys, method |-> method, url |-> url, headers |-> headers,
     data |-> data, timeout |-> timeout]

\* the shapes of the entries of API_CONFIGS
DPost == Desc(Fields, "POST", "str", Plain, FnData, 0)
DGet == Desc(Fields, "GET", "fn", Plain, NoneData, 0)
DLen == Desc(Fields, "POST", "str",
             ("Content-Length" :> LenFn) @@ ("Timestamp" :> TsFn), FnData, 0)
DLowerLen == Desc(Fields, "POST", "str", ("content-length" :> LenFn), FnData, 0)
\* other descriptors a caller can put in the list
DPut == Desc(Fields, "PUT", "str", Plain, FnData, 0)
DLowerPost == Desc(Fields \cup {"timeout"}, "post", "str", Plain, FnData, 1)
DGetBody == Desc(Fields, "get", "str", Plain, FnData, 0)
DLenNone == Desc(Fields, "POST", "str", ("Content-Length" :> LenFn), NoneData, 0)
DNoUrl == Desc(Fields \ {"url"}, "POST", "str", Plain, FnData, 0)
DNoMethod == Desc(Fields \ {"method"}, "POST", "str", Plain, FnData, 0)
DNoHeaders == Desc(Fields \ {"headers"}, "POST", "str", NoHeaders, FnData, 0)
DNoData == Desc(Fields \ {"data"}, "GET", "str", Plain, NoneData, 0)

API_CONFIGS == {DPost, DGet, DLen, DLowerLen}
Descriptors == API_CONFIGS \cup {DPut, DLowerPost, DGetBody, DLenNone,
                                 DNoUrl, DNoMethod, DNoHeaders, DNoData}


\* -------------------------------------------------- resolution (731-742)
RECURSIVE Digits(_)
Digits(n) == IF n < 10 THEN <<n>> ELSE Append(Digits(n \div 10), n % 10)

StrLen_template(data) == [kind |-> "str", text |-> Digits(data.len - PhoneLen)]

\* str(len(data)) of line 737, as the header value it produces
StrLen(data) == [kind |-> "str", text |-> Digits(data.len)]

\* config["data"](phone) if config["data"] else None
Data(d) ==
    IF d.data.kind = "fn" THEN [kind |-> "str", len |-> d.data.fixed + phone.len]
    ELSE [kind |-> "None", len |-> 0]

\* callable(headers.get(name)): dict lookup by the exact key
CallableHeader(h, name) == name \in DOMAIN h /\ h[name].kind = "fn"

\* headers after lines 731-738
Headers(d) ==
    LET h0 == ("X-Forwarded-For" :> Lit) @@ ("Client-IP" :> Lit) @@ d.headers
        h1 == IF CallableHeader(h0, "Content-Length")
              THEN ("Content-Length" :> StrLen(Data(d))) @@ h0 ELSE h0
    IN  IF CallableHeader(h1, "Timestamp")
        THEN ("Timestamp" :> [kind |-> "str", text |-> <<13>>]) @@ h1 ELSE h1

ResolveError_lenient(d) == IF "headers" \notin d.keys THEN "KeyError" ELSE "none"

\* the exception lines 731-742 raise for descriptor d, "none" when they raise none
ResolveError(d) ==
    IF "headers" \notin d.keys THEN "KeyError"
    ELSE IF CallableHeader(d.headers, "Content-Length") /\ "data" \notin d.keys
         THEN "KeyError"
    ELSE IF CallableHeader(d.headers, "Content-Length") /\ Data(d).kind = "None"
         THEN "TypeError"
    ELSE IF "url" \notin d.keys THEN "KeyError"
    ELSE IF "data" \notin d.keys THEN "KeyError"
    ELSE IF "method" \notin d.keys THEN "KeyError"
    ELSE "none"

\* the arguments handed to make_api_call at line 742
Resolve(d) ==
    [url |-> "str", method |-> d.method, headers |-> Headers(d), data |-> Data(d)]


\* ------------------------------------------------- make_api_call (711-724)
Upper_exact(m) == m

\* method.upper() of lines 713 and 717
Upper(m) == CASE m = "post" -> "POST" [] m = "get" -> "GET" [] OTHER -> m

Verb_fallthrough(c) == IF Upper(c.method) = "POST" THEN "POST" ELSE "GET"

\* the request make_api_call issues for call c: "POST", "GET" or "none"
Verb(c) ==
    IF Upper(c.method) = "POST" THEN "POST"
    ELSE IF Upper(c.method) = "GET" THEN "GET"
    ELSE "none"

\* what goes on the wire: session.post passes data, session.get does not
Request(c) ==
    [verb |-> Verb(c),
     body |-> IF Verb(c) = "POST" THEN c.data ELSE [kind |-> "None", len |-> 0]]
NoRequest == [verb |-> "none", body |-> [kind |-> "None", len |-> 0]]

\* exception classes: those derived from Exception, and those that are not
ExceptionClasses == {"ClientError", "TimeoutError", "TypeError"}
BaseOnly == {"CancelledError", "KeyboardInterrupt"}

ReturnExceptions == TRUE      \* gather(*tasks, return_exceptions=True)

Propagation_raised(e) == "raised"
Propagation_uncaught(e) == IF ReturnExceptions THEN "collected" ELSE "raised"

\* where an exception raised inside a request ends: "caught" by the except
\* clause of make_api_call, "collected" as a result by gather, or "raised"
\* out of gather into send_requests
Propagation(e) ==
    IF e \in ExceptionClasses THEN "caught"
    ELSE IF ReturnExceptions THEN "collected"
    ELSE "raised"

None == -1
\* the outcome lines make_api_call prints
Success_raise(i, status) ==
    IF status >= 400 THEN [task |-> i, status |-> None, bytes |-> None, error |-> "HTTPError"]
    ELSE [task |-> i, status |-> status, bytes |-> None, error |-> "None"]
Success_ok(i, status) == [task |-> i, status |-> 200, bytes |-> None, error |-> "None"]
Success(i, status) == [task |-> i, status |-> status, bytes |-> None, error |-> "None"]
Failure_status(i, e) == [task |-> i, status |-> 0, bytes |-> None, error |-> e]
Failure_blank(i, e) == [task |-> i, status |-> None, bytes |-> None, error |-> "None"]
Failure(i, e) == [task |-> i, status |-> None, bytes |-> None, error |-> e]

\* network events
Statuses == {200, 500}
BodyLens == {5}
Response(s, n) == [kind |-> "response", status |-> s, len |-> n, exc |-> "None"]
Raise(e) == [kind |-> "raise", status |-> None, len |-> None, exc |-> e]
NoEvent == [kind |-> "none", status |-> None, len |-> None, exc |-> "None"]

HasCallable(h) == \E k \in DOMAIN h : h[k].kind = "fn"

\* the ways a request with call c can end before its timeout: a header value
\* that is still a function cannot be serialized once the connection is made,
\* so such a request never gets a response
NetEvents(c) ==
    IF HasCallable(c.headers) THEN {Raise("TypeError"), Raise("ClientError")}
    ELSE {Response(s, n) : s \in Statuses, n \in BodyLens} \cup {Raise("ClientError")}


\* ------------------------------------------------------------------ state
N == Len(cfg)
Idx == 1..N
Fresh(v) == [i \in Idx |-> v]
Started == \A i \in Idx : st[i] # "new"
Finished_launched == \A i \in Idx : st[i] \notin {"none", "new"}
Finished_any == \E i \in Idx : st[i] = "done"
Finished == \A i \in Idx : st[i] = "done"

RECURSIVE Lists(_)
Lists(n) == IF n = 0 THEN {<<>>} ELSE {Append(l, d) : l \in Lists(n - 1), d \in Descriptors}

\* the lists explored where the runs are followed to their end
RunDescriptors == {DPost, DGet, DPut, DNoUrl}
RECURSIVE RunLists(_)
RunLists(n) ==
    IF n = 0 THEN {<<>>} ELSE {Append(l, d) : l \in RunLists(n - 1), d \in RunDescriptors}

\* the state before send_requests is called with the list l
Start(l) ==
    /\ cfg = l
    /\ running = TRUE
    /\ pc = "main"
    /\ phone = NoPhone
    /\ session = "none"
    /\ batch = 0
    /\ idx = 1
    /\ tasks = <<>>
    /\ st = Fresh("none")
    /\ res = Fresh("pending")
    /\ resp = Fresh(NoEvent)
    /\ sent = Fresh(0)
    /\ wire = Fresh(NoRequest)
    /\ now = 0
    /\ log = <<>>
    /\ issued = Fresh(0)
    /\ attempts = Fresh(0)
    /\ exc = "none"
    /\ opened = 0
    /\ stopAt = "never"

Init == \E l \in UNION {Lists(n) : n \in 1..MaxN} : Start(l)

\* ------------------------------------------------- send_requests (726-743)
Leave_leak(s) == s

\* the session once the block of line 728 is left, by return or by exception
Leave(s) == "closed"

StoredHeaders_alias(d) == IF "headers" \in d.keys THEN Headers(d) ELSE d.headers

\* the headers mapping the entry of API_CONFIGS holds after lines 731-738:
\* the writes go to the copy made at line 731
StoredHeaders(d) == d.headers

\* main, lines 755-763: the number is read and tested; a rejected number
\* ends main at line 760, an accepted one is passed to send_requests
Main ==
    /\ pc = "main"
    /\ \E p \in Phones :
         /\ phone' = p
         /\ pc' = IF Rejected(p) THEN "exit" ELSE "start"
    /\ UNCHANGED <<cfg, running, session, batch, idx, tasks, st, res, resp, sent,
                   wire, now, log, issued, attempts, exc, opened, stopAt>>

\* line 728: async with aiohttp.ClientSession() as session
OpenSession ==
    /\ opened' = opened + 1
    /\ UNCHANGED <<stopAt, phone>>
    /\ pc = "start"
    /\ session' = "open"
    /\ pc' = "loop"
    /\ UNCHANGED <<cfg, running, batch, idx, tasks, st, res, resp, sent, wire, now, log,
                   issued, attempts, exc>>

WhileRunning_forever ==
    /\ pc = "loop"
    /\ batch < MaxBatches
    /\ batch' = batch + 1
    /\ tasks' = <<>>
    /\ idx' = 1
    /\ st' = Fresh("none")
    /\ res' = Fresh("pending")
    /\ resp' = Fresh(NoEvent)
    /\ sent' = Fresh(0)
    /\ wire' = Fresh(NoRequest)
    /\ issued' = Fresh(0)
    /\ now' = 0
    /\ log' = <<>>
    /\ pc' = "build"
    /\ UNCHANGED <<cfg, running, session, attempts, exc, opened, stopAt, phone>>

\* lines 729-730: while running: tasks = [] starts the next batch; with running
\* false the loop ends and the session block is left
WhileRunning ==
    /\ UNCHANGED <<opened, stopAt, phone>>
    /\ pc = "loop"
    /\ running => batch < MaxBatches
    /\ IF running
       THEN /\ batch' = batch + 1
            /\ tasks' = <<>>
            /\ idx' = 1
            /\ st' = Fresh("none")
            /\ res' = Fresh("pending")
            /\ resp' = Fresh(NoEvent)
            /\ sent' = Fresh(0)
            /\ wire' = Fresh(NoRequest)
            /\ issued' = Fresh(0)
            /\ now' = 0
            /\ log' = <<>>
            /\ pc' = "build"
            /\ UNCHANGED session
       ELSE /\ session' = Leave(session)
            /\ pc' = "done"
            /\ UNCHANGED <<batch, idx, tasks, st, res, resp, sent, wire, now, log, issued>>
    /\ UNCHANGED <<cfg, running, attempts, exc>>

\* lines 731-742 for one entry: the coroutine is created, or the error of the
\* resolution leaves send_requests through the session block
Build ==
    /\ UNCHANGED <<opened, stopAt, phone>>
    /\ pc = "build"
    /\ idx <= N
    /\ IF ResolveError(cfg[idx]) = "none"
       THEN /\ tasks' = Append(tasks, Resolve(cfg[idx]))
            /\ st' = [st EXCEPT ![idx] = "new"]
            /\ idx' = idx + 1
            /\ UNCHANGED <<pc, session, exc>>
       ELSE /\ exc' = ResolveError(cfg[idx])
            /\ session' = Leave(session)
            /\ pc' = "raised"
            /\ UNCHANGED <<tasks, st, idx>>
    /\ cfg' = [cfg EXCEPT ![idx].headers = StoredHeaders(cfg[idx])]
    /\ UNCHANGED <<running, batch, res, resp, sent, wire, now, log, issued, attempts>>

\* line 743: send_requests suspends in gather
AwaitGather ==
    /\ UNCHANGED <<opened, stopAt, phone>>
    /\ pc = "build"
    /\ idx > N
    /\ pc' = "gather"
    /\ UNCHANGED <<cfg, running, session, batch, idx, tasks, st, res, resp, sent, wire, now,
                   log, issued, attempts, exc>>


TimeoutOf_none(i) == MaxClock + 1
TimeoutOf_own(i) == IF "timeout" \in cfg[i].keys THEN cfg[i].timeout ELSE Timeout

\* the timeout of the request of task i: timeout=3 in both branches (714, 718),
\* whatever the descriptor holds
TimeoutOf(i) == Timeout

After_retry(ev) == IF ev.kind = "raise" THEN "new" ELSE "done"

\* the state of a task after its wait ended with event ev: make_api_call ends
\* after either branch and after the except clause, it has no loop
After(ev) == "done"

Runnable_early(p) == p \in {"build", "gather"}

\* the coroutines handed to gather run only while send_requests is suspended
\* at line 743
Runnable(p) == p = "gather"

\* first step of make_api_call for task i (lines 712-722): the request is
\* issued, or the unsupported method is reported
StartTask(i) ==
    /\ UNCHANGED <<opened, stopAt, phone>>
    /\ Runnable(pc)
    /\ st[i] = "new"
    /\ \A j \in Idx : j < i => st[j] # "new"
    /\ IF Verb(tasks[i]) # "none"
       THEN /\ st' = [st EXCEPT ![i] = "inflight"]
            /\ wire' = [wire EXCEPT ![i] = Request(tasks[i])]
            /\ sent' = [sent EXCEPT ![i] = now]
            /\ issued' = [issued EXCEPT ![i] = @ + 1]
            /\ attempts' = [attempts EXCEPT ![i] = @ + 1]
            /\ UNCHANGED <<res, log>>
       ELSE /\ st' = [st EXCEPT ![i] = "done"]
            /\ res' = [res EXCEPT ![i] = "None"]
            /\ log' = Append(log, Failure(i, "Unsupported method"))
            /\ UNCHANGED <<wire, sent, issued, attempts>>
    /\ UNCHANGED <<cfg, running, pc, session, batch, idx, tasks, resp, now, exc>>

\* the wait of task i ends with event ev (lines 714-716, 718-720, 723-724)
Complete(i, ev) ==
    /\ UNCHANGED <<opened, stopAt, phone>>
    /\ resp' = [resp EXCEPT ![i] = ev]
    /\ IF ev.kind = "response"
       THEN /\ log' = Append(log, Success(i, ev.status))
            /\ res' = [res EXCEPT ![i] = "None"]
            /\ st' = [st EXCEPT ![i] = After(ev)]
            /\ UNCHANGED <<pc, session, exc>>
       ELSE IF Propagation(ev.exc) = "caught"
       THEN /\ log' = Append(log, Failure(i, ev.exc))
            /\ res' = [res EXCEPT ![i] = "None"]
            /\ st' = [st EXCEPT ![i] = After(ev)]
            /\ UNCHANGED <<pc, session, exc>>
       ELSE IF Propagation(ev.exc) = "collected"
       THEN /\ res' = [res EXCEPT ![i] = ev.exc]
            /\ st' = [st EXCEPT ![i] = "done"]
            /\ UNCHANGED <<log, pc, session, exc>>
       ELSE /\ res' = [res EXCEPT ![i] = ev.exc]
            /\ st' = [j \in Idx |-> IF j = i THEN "done"
                                     ELSE IF st[j] = "inflight" THEN "cancelled"
                                     ELSE st[j]]
            /\ exc' = ev.exc
            /\ session' = Leave(session)
            /\ pc' = "raised"
            /\ UNCHANGED log
    /\ UNCHANGED <<cfg, running, batch, idx, tasks, sent, wire, now, issued, attempts>>

\* a response or a network error arrives for request i before its timeout
Respond(i) ==
    /\ Runnable(pc)
    /\ Started
    /\ st[i] = "inflight"
    /\ now - sent[i] < TimeoutOf(i)
    /\ \E ev \in NetEvents(tasks[i]) : Complete(i, ev)

\* the timeout of request i expires
Expire(i) ==
    /\ Runnable(pc)
    /\ Started
    /\ st[i] = "inflight"
    /\ now - sent[i] >= TimeoutOf(i)
    /\ Complete(i, Raise("TimeoutError"))

\* one second passes while requests are waiting
Tick ==
    /\ UNCHANGED <<opened, stopAt, phone>>
    /\ Runnable(pc)
    /\ Started
    /\ \E i \in Idx : st[i] = "inflight"
    /\ \A i \in Idx : st[i] = "inflight" => now - sent[i] < TimeoutOf(i)
    /\ now < MaxClock
    /\ now' = now + 1
    /\ UNCHANGED <<cfg, running, pc, session, batch, idx, tasks, st, res, resp, sent,
                   wire, log, issued, attempts, exc>>

\* gather returns once every task has finished (line 743)
GatherReturns ==
    /\ UNCHANGED <<opened, stopAt, phone>>
    /\ pc = "gather"
    /\ Finished
    /\ pc' = "loop"
    /\ UNCHANGED <<cfg, running, session, batch, idx, tasks, st, res, resp, sent, wire,
                   now, log, issued, attempts, exc>>

Interrupt_inside ==
    /\ pc \in {"loop", "build"}
    /\ running
    /\ running' = FALSE
    /\ stopAt' = pc
    /\ UNCHANGED <<cfg, pc, session, batch, idx, tasks, st, res, resp, sent, wire, now,
                   log, issued, attempts, exc, opened, phone>>

\* Ctrl+C while send_requests runs its own code: KeyboardInterrupt leaves
\* send_requests through the session block, main catches it (764) and calls
\* stop_script (750-753)
Interrupt ==
    /\ stopAt' = "left"
    /\ UNCHANGED <<opened, phone>>
    /\ pc \in {"loop", "build"}
    /\ exc' = "KeyboardInterrupt"
    /\ session' = Leave(session)
    /\ running' = FALSE
    /\ pc' = "raised"
    /\ UNCHANGED <<cfg, batch, idx, tasks, st, res, resp, sent, wire, now, log,
                   issued, attempts>>

\* Ctrl+C while send_requests is suspended in gather: the main task is
\* cancelled, gather cancels its children, CancelledError leaves send_requests
\* and is not caught by main
Cancel ==
    /\ UNCHANGED <<opened, stopAt, phone>>
    /\ pc = "gather"
    /\ st' = [j \in Idx |-> IF st[j] \in {"new", "inflight"} THEN "cancelled" ELSE st[j]]
    /\ res' = [j \in Idx |-> IF st[j] \in {"new", "inflight"} THEN "CancelledError"
                                                               ELSE res[j]]
    /\ exc' = "CancelledError"
    /\ session' = Leave(session)
    /\ pc' = "raised"
    /\ UNCHANGED <<cfg, running, batch, idx, tasks, resp, sent, wire, now, log,
                   issued, attempts>>

Next ==
    \/ Main
    \/ OpenSession
    \/ WhileRunning
    \/ Build
    \/ AwaitGather
    \/ \E i \in Idx : StartTask(i)
    \/ \E i \in Idx : Respond(i)
    \/ \E i \in Idx : Expire(i)
    \/ Tick
    \/ GatherReturns
    \/ Interrupt
    \/ Cancel

Spec == Init /\ [][Next]_vars

\* stop_script (750-753) called by another coroutine or callback of the event
\* loop, which runs only while send_requests is suspended at line 743
StopScript ==
    /\ pc = "gather"
    /\ running
    /\ running' = FALSE
    /\ stopAt' = pc
    /\ UNCHANGED <<cfg, pc, session, batch, idx, tasks, st, res, resp, sent, wire, now,
                   log, issued, attempts, exc, opened, phone>>

\* the program with an outside caller of stop_script
NextFull ==
    \/ Next
    \/ StopScript

FullSpec == Init /\ [][NextFull]_vars

\* the program without Ctrl+C: every step the event loop owes is taken, time
\* passes and timers fire
NextRun ==
    \/ Main
    \/ OpenSession
    \/ WhileRunning
    \/ Build
    \/ AwaitGather
    \/ \E i \in Idx : StartTask(i)
    \/ \E i \in Idx : Respond(i)
    \/ \E i \in Idx : Expire(i)
    \/ Tick
    \/ GatherReturns
    \/ StopScript

Fairness ==
    /\ WF_vars(Main)
    /\ WF_vars(OpenSession)
    /\ WF_vars(WhileRunning)
    /\ WF_vars(Build)
    /\ WF_vars(AwaitGather)
    /\ WF_vars(\E i \in Idx : StartTask(i))
    /\ WF_vars(\E i \in Idx : Expire(i))
    /\ WF_vars(Tick)
    /\ WF_vars(GatherReturns)

RunInit == \E l \in UNION {RunLists(n) : n \in 1..MaxN} : Start(l)

RunSpec == RunInit /\ [][NextRun]_vars /\ Fairness

TypeOK ==
    /\ pc \in {"main", "exit", "start", "loop", "build", "gather", "raised", "done"}
    /\ phone \in Phones
    /\ session \in {"none", "open", "closed"}
    /\ batch \in 0..MaxBatches
    /\ now \in 0..MaxClock
    /\ Len(tasks) <= N


\* ----------------------------------------------------------- properties
\* the outcome lines printed for descriptor i in the current batch
Entries(i) == SelectSeq(log, LAMBDA e : e.task = i)
\* gather of the current batch has returned
BatchOver == pc = "loop" /\ batch > 0
Supported(i) == Upper(cfg[i].method) \in {"POST", "GET"}
\* the outcome that event ev alone determines for descriptor i
Outcome(i, ev) == IF ev.kind = "response" THEN Success(i, ev.status) ELSE Failure(i, ev.exc)

\* C1 as stated: when a batch is over there are exactly N outcomes and the
\* outcome at position k belongs to the descriptor at position k.
C1_InputOrder ==
    BatchOver => /\ Len(log) = N
                 /\ \A k \in 1..Len(log) : log[k].task = k

\* C1 amended: when a batch is over there are exactly N outcomes, exactly one
\* for each descriptor, in the order of completion; the results gather holds
\* by position are all None.
C1_OnePerDescriptor ==
    BatchOver => /\ Len(log) = N
                 /\ \A i \in Idx : Len(Entries(i)) = 1 /\ res[i] = "None"

C1_Witness ==
    /\ BatchOver
    /\ N >= 2
    /\ log[1].task = 2
    /\ log[2].task = 1

\* C2 as stated: every outcome has either status and size, or error, populated,
\* never both and never neither.
C2_StatusAndSizeOrError ==
    \A k \in 1..Len(log) :
        \/ log[k].status # None /\ log[k].bytes # None /\ log[k].error = "None"
        \/ log[k].status = None /\ log[k].bytes = None /\ log[k].error # "None"

\* C2 amended: every descriptor that completes has one outcome, and every
\* outcome has either a status or an error populated, never both and never
\* neither; the size is never populated.
C2_StatusOrError ==
    /\ \A i \in Idx : st[i] = "done" => Len(Entries(i)) = 1
    /\ \A k \in 1..Len(log) :
           /\ log[k].bytes = None
           /\ (log[k].status # None) # (log[k].error # "None")

C2_Witness ==
    /\ BatchOver
    /\ \E k \in 1..Len(log) : log[k].status = 200
    /\ \E k \in 1..Len(log) : log[k].error = "ClientError"

\* C3: the failure of one descriptor leaves its siblings alone: the outcome of
\* a descriptor is the one its own network event determines, no task is
\* cancelled unless send_requests itself is interrupted, and when the batch is
\* over every descriptor is done and has issued its own request.
C3_Isolation ==
    /\ \A i \in Idx : (st[i] = "done" /\ wire[i].verb # "none")
                         => Entries(i) = <<Outcome(i, resp[i])>>
    /\ exc \notin BaseOnly => \A i \in Idx : st[i] # "cancelled"
    /\ BatchOver => \A i \in Idx : /\ st[i] = "done"
                                    /\ issued[i] = IF Supported(i) THEN 1 ELSE 0

C3_Witness ==
    /\ BatchOver
    /\ \E i, j \in Idx : /\ resp[j].kind = "raise"
                          /\ log[1].task = j
                          /\ resp[i].kind = "response"
                          /\ log[2].task = i

\* C4: every error of a request becomes the outcome of its descriptor: no task
\* ends with an exception of a request, and send_requests is left by an
\* exception only when it is interrupted or before any request was started.
C4_Caught ==
    /\ \A i \in Idx : res[i] \notin ExceptionClasses
    /\ \A i \in Idx : resp[i].kind = "raise" => Entries(i) = <<Failure(i, resp[i].exc)>>
    /\ pc = "raised" => \/ exc \in BaseOnly
                        \/ \A i \in Idx : st[i] \in {"none", "new"}

C4_Witness ==
    /\ BatchOver
    /\ N >= 2
    /\ \A i \in Idx : resp[i].kind = "raise"
    /\ \E i \in Idx : resp[i].exc = "TimeoutError"

\* C5 as stated: over a run of send_requests no descriptor is requested more
\* than once.
C5_AtMostOnceEver == \A i \in Idx : attempts[i] <= 1

\* C5 amended: within one batch a descriptor is requested at most once,
\* whether the attempt succeeds or fails; a run requests it once per batch.
C5_OncePerBatch ==
    /\ \A i \in Idx : issued[i] <= 1 /\ attempts[i] <= batch
    /\ BatchOver => \A i \in Idx : attempts[i] = IF Supported(i) THEN batch ELSE 0

C5_Witness ==
    /\ BatchOver
    /\ batch = 2
    /\ \E i \in Idx : resp[i].kind = "raise" /\ issued[i] = 1 /\ attempts[i] = 2

\* C6: a batch never waits longer than the timeout: a request still pending
\* when the timeout elapses is abandoned and reported as a timeout error, and a
\* descriptor that had completed keeps its outcome until the next batch.
C6_BatchTimeout ==
    /\ [](now <= Timeout)
    /\ [][\A i \in Idx :
            (st[i] = "inflight" /\ now - sent[i] >= Timeout /\ st'[i] # "inflight")
            => \/ st'[i] = "cancelled"
               \/ st'[i] = "done" /\ Entries(i)' = <<Failure(i, "TimeoutError")>>]_vars
    /\ [][\A i \in Idx :
            (st[i] = "done" /\ batch' = batch)
            => st'[i] = "done" /\ Entries(i)' = Entries(i)]_vars

C6_Witness ==
    /\ BatchOver
    /\ now = Timeout
    /\ \E i, j \in Idx : /\ resp[j].kind = "response"
                          /\ resp[j].status = 200
                          /\ Entries(j) = <<Success(j, 200)>>
                          /\ resp[i].exc = "TimeoutError"
                          /\ Entries(i) = <<Failure(i, "TimeoutError")>>

\* C7 as stated: a request whose descriptor holds a timeout is completed with
\* an error when that timeout has passed without a response.
C7_OwnTimeout ==
    \A i \in Idx : (st[i] = "inflight" /\ "timeout" \in cfg[i].keys)
                     => now - sent[i] <= cfg[i].timeout

\* C7 amended: every request has the same timeout of 3 seconds, whatever its
\* descriptor holds: a request waits at most 3 seconds and one that got no
\* response is completed with a timeout error exactly 3 seconds after launch.
C7_FixedTimeout ==
    /\ \A i \in Idx : st[i] = "inflight" => now - sent[i] <= Timeout
    /\ \A i \in Idx : resp[i].exc = "TimeoutError"
                        => /\ now - sent[i] = Timeout
                           /\ Entries(i) = <<Failure(i, "TimeoutError")>>

C7_Witness ==
    /\ N >= 2
    /\ \A i \in Idx : resp[i].exc = "TimeoutError"
    /\ \E i, j \in Idx : "timeout" \in cfg[i].keys /\ "timeout" \notin cfg[j].keys

\* C8: no request is issued, and none completes, before every descriptor of the
\* batch has been resolved and queued; all requests of a batch can be in
\* flight at once and the batch lasts no longer than one timeout.
C8_LaunchedTogether ==
    /\ \A i \in Idx : st[i] \in {"inflight", "done", "cancelled"}
                        => /\ pc # "build"
                           /\ Len(tasks) = N
                           /\ \A j \in Idx : st[j] # "none"
    /\ \A i \in Idx : resp[i].kind # "none" => \A j \in Idx : st[j] \notin {"none", "new"}
    /\ \A i, j \in Idx : (wire[i].verb # "none" /\ wire[j].verb # "none") => sent[i] = sent[j]
    /\ BatchOver => now <= Timeout

C8_Witness ==
    /\ N >= 2
    /\ \A i \in Idx : st[i] = "inflight"
    /\ now = Timeout

\* C9: a descriptor whose method is neither GET nor POST completes with an
\* error outcome and without a request; the batch goes on and the other
\* descriptors issue their requests and complete.
C9_Unsupported ==
    /\ \A i \in Idx : ~Supported(i) => st[i] # "inflight"
    /\ \A i \in Idx : (st[i] = "done" /\ ~Supported(i))
                        => /\ issued[i] = 0
                           /\ attempts[i] = 0
                           /\ wire[i] = NoRequest
                           /\ res[i] = "None"
                           /\ Entries(i) = <<Failure(i, "Unsupported method")>>
    /\ BatchOver => \A j \in Idx : Supported(j) => issued[j] = 1 /\ Len(Entries(j)) = 1

C9_Witness ==
    /\ BatchOver
    /\ \E i, j \in Idx : /\ ~Supported(i)
                          /\ Entries(i) = <<Failure(i, "Unsupported method")>>
                          /\ Supported(j)
                          /\ resp[j].kind = "response"

\* a descriptor that lacks a required field or whose resolution raises
Malformed(d) ==
    \/ ~(Fields \subseteq d.keys)
    \/ CallableHeader(d.headers, "Content-Length") /\ d.data.kind = "None"

\* C10: when a descriptor of the list is malformed, send_requests is left by
\* the error of its resolution and no request is ever issued, not even for the
\* well-formed descriptors that precede it.
C10_FailsBeforeDispatch ==
    (\E k \in Idx : Malformed(cfg[k]))
    => /\ \A i \in Idx : /\ attempts[i] = 0
                          /\ st[i] \in {"none", "new"}
                          /\ wire[i] = NoRequest
       /\ pc \notin {"gather", "done"}
       /\ ~BatchOver
       /\ pc = "build" => \A k \in 1..(idx - 1) : ~Malformed(cfg[k])
       /\ (pc = "raised" /\ exc \notin BaseOnly)
              => exc \in {"KeyError", "TypeError"} /\ Malformed(cfg[idx])

C10_Witness ==
    /\ pc = "raised"
    /\ exc = "KeyError"
    /\ idx = 2
    /\ ~Malformed(cfg[1])
    /\ st[1] = "new"
    /\ attempts[1] = 0
    /\ session = "closed"

\* C11: a descriptor whose target is unreachable (the request ends with a
\* connection error) has one outcome, with the error populated and no status.
C11_Unreachable ==
    \A i \in Idx : (resp[i].kind = "raise" /\ resp[i].exc = "ClientError")
                     => /\ issued[i] = 1
                        /\ Len(Entries(i)) = 1
                        /\ Entries(i)[1].error = "ClientError"
                        /\ Entries(i)[1].status = None

C11_Witness ==
    /\ BatchOver
    /\ \E i \in Idx : /\ resp[i] = Raise("ClientError")
                       /\ ~HasCallable(tasks[i].headers)
                       /\ Entries(i)[1].error = "ClientError"

\* C12: a response is a success whatever its status: the outcome carries that
\* status and no error, and an outcome carries an error only when its
\* descriptor received no response.
C12_StatusIsSuccess ==
    /\ \A i \in Idx : resp[i].kind = "response"
                        => /\ Len(Entries(i)) = 1
                           /\ Entries(i)[1].status = resp[i].status
                           /\ Entries(i)[1].error = "None"
    /\ \A k \in 1..Len(log) : log[k].error # "None" => resp[log[k].task].kind # "response"

C12_Witness ==
    /\ BatchOver
    /\ \E i \in Idx : /\ resp[i].kind = "response"
                       /\ resp[i].status = 500
                       /\ Entries(i)[1].status = 500
                       /\ Entries(i)[1].error = "None"

\* C13 as stated: the outcome of a response holds the status and the length of
\* the response body.
C13_StatusAndLength ==
    \A i \in Idx : resp[i].kind = "response"
                     => /\ Len(Entries(i)) = 1
                        /\ Entries(i)[1].status = resp[i].status
                        /\ Entries(i)[1].bytes = resp[i].len

\* C13 amended: the outcome of a response, to a POST and to a GET alike, holds
\* the status of the response and nothing else: the length of the body is not
\* recorded.
C13_StatusOnly ==
    \A i \in Idx : resp[i].kind = "response"
                     => /\ wire[i].verb \in {"POST", "GET"}
                        /\ Entries(i) = <<[task |-> i, status |-> resp[i].status,
                                            bytes |-> None, error |-> "None"]>>

C13_Witness ==
    /\ BatchOver
    /\ \E i, j \in Idx : /\ wire[i].verb = "POST"
                          /\ wire[j].verb = "GET"
                          /\ resp[i] = Response(500, 5)
                          /\ resp[j] = Response(200, 5)
                          /\ Entries(i)[1].bytes = None
                          /\ Entries(j)[1].bytes = None

\* C14: a descriptor goes from pending to completed and stays there with its
\* one outcome until the next batch; when the event loop runs and every wait
\* ends by response, failure or timeout, every descriptor handed to gather is
\* eventually completed.
C14_Lifecycle ==
    /\ [](\A i \in Idx : /\ Len(Entries(i)) <= 1
                          /\ st[i] \in {"none", "new", "inflight", "done"}
                          /\ st[i] = "done" <=> Len(Entries(i)) = 1)
    /\ [][\A i \in Idx :
            \/ st'[i] = st[i] /\ Entries(i)' = Entries(i)
            \/ st[i] = "none" /\ st'[i] = "new"
            \/ st[i] = "new" /\ st'[i] \in {"inflight", "done"}
            \/ st[i] = "inflight" /\ st'[i] = "done"
            \/ batch' # batch /\ st'[i] = "none"]_vars
    /\ \A i \in 1..MaxN :
           (i \in Idx /\ pc = "gather") ~> (i \in Idx /\ st[i] = "done")

C14_Witness ==
    /\ BatchOver
    /\ N >= 2
    /\ \E i, j \in Idx : /\ Entries(i) = <<Failure(i, "TimeoutError")>>
                          /\ Entries(j) = <<Success(j, 200)>>

\* C15: the flag running is read at the start of a loop iteration only: once
\* it is false no further batch is started, the batch in progress runs every
\* descriptor to completion, and then send_requests returns.
C15_StopBetweenBatches ==
    /\ [][~running => batch' = batch]_vars
    /\ [][pc' # pc => \/ pc \in {"main", "loop"}
                      \/ pc' \in {"gather", "loop"}
                      \/ pc' = "raised" /\ pc = "build" /\ Malformed(cfg[idx])]_vars
    /\ [](pc = "done" => /\ ~running
                          /\ session = "closed"
                          /\ batch > 0 => \A i \in Idx : st[i] = "done" /\ Len(Entries(i)) = 1)
    /\ (~running /\ \A k \in Idx : ~Malformed(cfg[k])) ~> (pc = "done")

C15_Witness ==
    /\ pc = "done"
    /\ stopAt = "gather"
    /\ N >= 2
    /\ batch = 2
    /\ \A i \in Idx : st[i] = "done" /\ attempts[i] = 2

\* C16: send_requests opens one session, every request is issued while that
\* session is open, and the session is closed however send_requests is left.
C16_OneSession ==
    /\ opened <= 1
    /\ pc \in {"main", "exit", "start"} <=> session = "none"
    /\ pc \in {"loop", "build", "gather"} <=> session = "open"
    /\ pc \in {"done", "raised"} <=> session = "closed"
    /\ session # "none" => opened = 1
    /\ \A i \in Idx : wire[i].verb # "none" => opened = 1

C16_Witness ==
    /\ pc = "done"
    /\ session = "closed"
    /\ opened = 1
    /\ batch = 2
    /\ \E i \in Idx : attempts[i] = 2

\* C17: building and running a batch leaves the list of descriptors as it was:
\* the headers written and the values computed go to the mapping of the
\* request, so every batch resolves the same calls.
C17_ConfigUnchanged ==
    /\ [][cfg' = cfg]_vars
    /\ [](\A i \in 1..Len(tasks) :
             /\ tasks[i] = Resolve(cfg[i])
             /\ {"X-Forwarded-For", "Client-IP"} \subseteq DOMAIN tasks[i].headers
             /\ {"X-Forwarded-For", "Client-IP"} \cap DOMAIN cfg[i].headers = {})

C17_Witness ==
    /\ batch = 2
    /\ pc = "gather"
    /\ cfg[1] = DLen
    /\ tasks[1].headers["Content-Length"] = StrLen(Data(DLen))
    /\ cfg[1].headers["Content-Length"] = LenFn
    /\ cfg[1].headers["Timestamp"] = TsFn

\* C18: the url, the body and every header value handed to make_api_call are
\* literal values, never functions.
C18_AllLiteral ==
    \A i \in 1..Len(tasks) : /\ ~HasCallable(tasks[i].headers)
                              /\ tasks[i].url = "str"
                              /\ tasks[i].data.kind \in {"str", "None"}

\* C19: no request of the next batch is created before every request of the
\* current one has completed: the requests in flight belong to the current
\* batch, at most one for each descriptor.
C19_Barrier ==
    /\ [][batch' # batch => \A i \in Idx : st[i] \in {"none", "done"}]_vars
    /\ [](pc = "build" => \A i \in Idx : st[i] \in {"none", "new"})
    /\ [](\A i \in Idx : st[i] = "inflight"
                           => pc = "gather" /\ issued[i] = 1 /\ attempts[i] = batch)
    /\ [](Cardinality({i \in Idx : st[i] = "inflight"}) <= N)

C19_Witness ==
    /\ batch = 2
    /\ N >= 2
    /\ \A i \in Idx : st[i] = "inflight" /\ attempts[i] = 2

\* C20: while a request is in flight the session is open, also when
\* send_requests is left by an exception or cancelled.
C20_OpenWhileInFlight ==
    \A i \in Idx : st[i] = "inflight" => session = "open" /\ pc = "gather"

C20_Witness ==
    /\ pc = "raised"
    /\ exc = "CancelledError"
    /\ session = "closed"
    /\ \E i \in Idx : st[i] = "cancelled" /\ wire[i].verb # "none"
    /\ \E i \in Idx : st[i] = "done"


\* C21: the stop flag is never cleared while the loop is running. In every
\* state in which send_requests is executing, running is true; running is
\* false only after stop_script was called by main, which happens only once
\* send_requests has been left by KeyboardInterrupt; send_requests never
\* returns normally.
C21_RunningWhileExecuting ==
    /\ pc \in {"start", "loop", "build", "gather"} => running
    /\ stopAt \in {"never", "left"}
    /\ ~running => pc = "raised" /\ exc = "KeyboardInterrupt" /\ stopAt = "left"
    /\ pc # "done"

\* the loop ran a batch, was interrupted, and main called stop_script
C21_Witness ==
    /\ batch > 0
    /\ pc = "raised"
    /\ ~running
    /\ stopAt = "left"
    /\ session = "closed"


\* the entered string is exactly 10 digit characters
TenDigits == phone.len = 10 /\ phone.len > 0 /\ phone.digits

\* C22: input validation gates all dispatch. Once a number that is not
\* exactly 10 digit characters has been read, main has returned without
\* calling send_requests: no session is opened, no batch is started, no
\* request is issued and running is unchanged; send_requests is entered only
\* with a 10-digit string.
C22_ValidationGates ==
    /\ pc # "main" /\ ~TenDigits =>
          /\ pc = "exit"
          /\ session = "none" /\ opened = 0
          /\ batch = 0 /\ tasks = <<>>
          /\ \A i \in Idx : attempts[i] = 0 /\ issued[i] = 0 /\ wire[i] = NoRequest
          /\ running
          /\ stopAt = "never"
    /\ pc \notin {"main", "exit"} => TenDigits

\* a string of 10 characters that are not all digits was entered and main
\* has returned
C22_Witness ==
    /\ pc = "exit"
    /\ phone.len = PhoneLen
    /\ ~phone.digits
    /\ session = "none"


\* the number a string of decimal digits denotes
RECURSIVE Value(_)
Value(t) == IF t = <<>> THEN 0
            ELSE 10 * Value(SubSeq(t, 1, Len(t) - 1)) + t[Len(t)]

\* descriptor d has a callable Content-Length header
ComputedLength(d) == "headers" \in d.keys /\ CallableHeader(d.headers, "Content-Length")

\* C23: for every descriptor whose Content-Length header is a callable, the
\* header value sent is the decimal length of the body sent in the same
\* request; when such a descriptor has no body, the TypeError leaves
\* send_requests unhandled at that descriptor, nothing is printed for it and
\* no request of the batch is issued.
C23_LengthOfBody ==
    /\ \A i \in 1..Len(tasks) :
          ComputedLength(cfg[i]) /\ wire[i] # NoRequest =>
              /\ wire[i].body.kind = "str"
              /\ tasks[i].headers["Content-Length"].kind = "str"
              /\ Value(tasks[i].headers["Content-Length"].text) = wire[i].body.len
    /\ \A k \in Idx :
          ComputedLength(cfg[k]) /\ "data" \in cfg[k].keys /\ cfg[k].data.kind = "None" =>
              /\ idx <= k
              /\ pc # "gather"
              /\ log = <<>>
              /\ \A i \in Idx : attempts[i] = 0 /\ wire[i] = NoRequest
              /\ pc = "raised" /\ idx = k /\ exc # "KeyboardInterrupt" => exc = "TypeError"

\* a request with a computed Content-Length is in flight: 12 characters of
\* body, header value "12"
C23_Witness ==
    \E i \in 1..Len(tasks) :
        /\ cfg[i] = DLen
        /\ st[i] = "inflight"
        /\ wire[i].body.len = 2 + PhoneLen
        /\ tasks[i].headers["Content-Length"].text = <<1, 2>>


\* the spellings of the two supported methods among the descriptors
PostSpellings == {"POST", "post"}
GetSpellings == {"GET", "get"}

\* C24: method selection is case-insensitive and exhaustive. A started call
\* whose method is POST ignoring case has issued exactly one POST carrying
\* its body, one whose method is GET ignoring case has issued exactly one GET
\* without a body, also when the descriptor has one, and a call with any
\* other method has issued no request.
C24_MethodSelection ==
    \A i \in 1..Len(tasks) :
        st[i] \in {"inflight", "done"} =>
            IF tasks[i].method \in PostSpellings
            THEN /\ issued[i] = 1
                 /\ wire[i].verb = "POST"
                 /\ wire[i].body = tasks[i].data
            ELSE IF tasks[i].method \in GetSpellings
            THEN /\ issued[i] = 1
                 /\ wire[i].verb = "GET"
                 /\ wire[i].body.kind = "None"
            ELSE /\ issued[i] = 0
                 /\ wire[i] = NoRequest

\* a batch of a lower-case post and a lower-case get that has a body: one
\* POST with the body and one GET without it were issued
C24_Witness ==
    /\ cfg = <<DLowerPost, DGetBody>>
    /\ BatchOver
    /\ wire[1].verb = "POST" /\ wire[1].body.kind = "str"
    /\ wire[2].verb = "GET" /\ wire[2].body.kind = "None"
    /\ tasks[2].data.kind = "str"
    /\ issued[1] = 1 /\ issued[2] = 1

====
